---- MODULE Spec2Model ----
(***************************************************************************)
(* Model of googleearthengine.py: the script's top-to-bottom run           *)
(* (authenticate, initialize, fetch, normalize, convert units, export,     *)
(* fit, plot) and the function ee_array_to_df that reshapes the raw        *)
(* ee.Image.getRegion array into a table.                                  *)
(*                                                                         *)
(* Values.  A cell of the raw array or of a table is a record              *)
(*   [k, n, s, ms]: k is the kind ("null" = None, "nan" = float NaN,       *)
(*   "num" = a number n, "str" = a string with characters s,               *)
(*   "datetime" = a timestamp, day n since the epoch and ms into the day). *)
(* Temperatures after the unit conversion are numbers in hundredths of a   *)
(* degree Celsius, so 0.02*raw - 273.15 is 2*raw - 27315.                  *)
(* A table (pandas DataFrame) is [columns, index, rows]: the column        *)
(* labels, the row labels and the rows, each row a sequence of cells.      *)
(***************************************************************************)
EXTENDS Integers, Sequences, FiniteSets, TLC

\* ---------------------------------------------------------------- bounds

\* Most data rows of a raw response handed to ee_array_to_df directly.
MaxRows == 3

\* Most data rows the provider returns to the script.
MaxFetchRows == 4

\* ----------------------------------------------------------------- cells

Null == [k |-> "null", n |-> 0, s |-> <<>>, ms |-> 0]

NaN == [k |-> "nan", n |-> 0, s |-> <<>>, ms |-> 0]

Num(v) == [k |-> "num", n |-> v, s |-> <<>>, ms |-> 0]

Str(chars) == [k |-> "str", n |-> 0, s |-> chars, ms |-> 0]

Timestamp(day, msOfDay) == [k |-> "datetime", n |-> day, s |-> <<>>, ms |-> msOfDay]

\* pandas.isna on one cell: None and float NaN are missing, strings never are.
isna(c) == c.k \in {"null", "nan"}

Digits == <<"0", "1", "2", "3", "4", "5", "6", "7", "8", "9">>

IsDigit(ch) == \E d \in 1..10 : Digits[d] = ch

DigitValue(ch) == (CHOOSE d \in 1..10 : Digits[d] = ch) - 1

RECURSIVE ParseDigits(_, _)
ParseDigits(chars, acc) ==
    IF chars = <<>> THEN acc
    ELSE ParseDigits(Tail(chars), 10 * acc + DigitValue(Head(chars)))

\* pd.to_numeric(..., errors='coerce') on one cell: numbers stay, a string of
\* digits parses to its number, any other string becomes NaN, None becomes NaN.
to_numeric(c) ==
    CASE c.k = "num" -> c
      [] c.k = "str" ->
            IF c.s # <<>> /\ \A i \in 1..Len(c.s) : IsDigit(c.s[i])
            THEN Num(ParseDigits(c.s, 0))
            ELSE NaN
      [] OTHER -> NaN

MsPerDay == 24 * 3600 * 1000

\* pd.to_datetime(t, unit='ms') on one cell.
to_datetime(c) ==
    IF c.k = "num" THEN Timestamp(c.n \div MsPerDay, c.n % MsPerDay) ELSE NaN

\* ---------------------------------------------------------------- tables

NoFrame == [columns |-> <<>>, index |-> <<>>, rows |-> <<>>]

Range(seq) == {seq[i] : i \in 1..Len(seq)}

ColPos(columns, name) == CHOOSE i \in 1..Len(columns) : columns[i] = name

\* The cell of data row j (0-based, as pandas labels it) of arr under a column.
RawCell(a, j, name) == a[j + 2][ColPos(a[1], name)]

RECURSIVE FilterIdx(_, _)
\* The positions of 1..n satisfying keep, in increasing order.
FilterIdx(n, keep) ==
    IF n = 0 THEN <<>>
    ELSE IF n \in keep THEN Append(FilterIdx(n - 1, keep), n)
    ELSE FilterIdx(n - 1, keep)

\* pd.DataFrame(arr) followed by the header rearrangement: row 0 of arr gives
\* the column labels, the rest are the rows, labelled 0, 1, 2, ...
DataFrame(arr) ==
    [columns |-> arr[1],
     index   |-> [i \in 1..(Len(arr) - 1) |-> i - 1],
     rows    |-> [i \in 1..(Len(arr) - 1) |-> arr[i + 1]]]

\* df[[names]]: the named columns in the order asked for.
Project(df, names) ==
    [columns |-> names,
     index   |-> df.index,
     rows    |-> [i \in 1..Len(df.rows) |->
                    [j \in 1..Len(names) |-> df.rows[i][ColPos(df.columns, names[j])]]]]

dropna_reversed(df) ==
    LET keep == {i \in 1..Len(df.rows) : \A j \in 1..Len(df.columns) : ~isna(df.rows[i][j])}
        pos  == FilterIdx(Len(df.rows), keep)
        n    == Len(pos)
    IN  [columns |-> df.columns,
         index   |-> [i \in 1..n |-> df.index[pos[n + 1 - i]]],
         rows    |-> [i \in 1..n |-> df.rows[pos[n + 1 - i]]]]

\* DataFrame.dropna(): the rows with no missing cell, labels and order kept.
dropna(df) ==
    LET keep == {i \in 1..Len(df.rows) : \A j \in 1..Len(df.columns) : ~isna(df.rows[i][j])}
        pos  == FilterIdx(Len(df.rows), keep)
    IN  [columns |-> df.columns,
         index   |-> [i \in 1..Len(pos) |-> df.index[pos[i]]],
         rows    |-> [i \in 1..Len(pos) |-> df.rows[pos[i]]]]

\* df[name] = cells: a new last column.
AddColumn(df, name, cells) ==
    [columns |-> Append(df.columns, name),
     index   |-> df.index,
     rows    |-> [i \in 1..Len(df.rows) |-> Append(df.rows[i], cells[i])]]

\* ------------------------------------------------------- ee_array_to_df

Raise(e) == [err |-> e, df |-> NoFrame]

Return(df) == [err |-> "none", df |-> df]

Select_skip_missing(df, names) ==
    Return(Project(df,
        LET pos == FilterIdx(Len(names), {j \in 1..Len(names) : names[j] \in Range(df.columns)})
        IN  [j \in 1..Len(pos) |-> names[pos[j]]]))

\* df[[names]] with its failure: a label that is no column raises KeyError.
Select(df, names) ==
    IF \E j \in 1..Len(names) : names[j] \notin Range(df.columns)
    THEN Raise("KeyError")
    ELSE Return(Project(df, names))

SelectedColumns_bands_only(list_of_bands) == <<"time">> \o list_of_bands

\* The columns line 82 selects before dropna.
SelectedColumns(list_of_bands) == <<"longitude", "latitude", "time">> \o list_of_bands

KeptColumns_with_location(list_of_bands) ==
    <<"time", "datetime", "longitude", "latitude">> \o list_of_bands

\* The columns line 92 keeps.
KeptColumns(list_of_bands) == <<"time", "datetime">> \o list_of_bands

\* for band in list_of_bands: df[band] = pd.to_numeric(df[band], errors='coerce')
NumericBands(df, list_of_bands) ==
    [df EXCEPT !.rows =
        [i \in 1..Len(df.rows) |->
            [j \in 1..Len(df.columns) |->
                IF df.columns[j] \in Range(list_of_bands)
                THEN to_numeric(df.rows[i][j])
                ELSE df.rows[i][j]]]]

\* df['datetime'] = pd.to_datetime(df['time'], unit='ms')
WithDatetime(df) ==
    AddColumn(df, "datetime",
        [i \in 1..Len(df.rows) |-> to_datetime(df.rows[i][ColPos(df.columns, "time")])])

\* ee_array_to_df(arr, list_of_bands): what the call returns or raises.
ee_array_to_df(arr, list_of_bands) ==
    IF Len(arr) = 0
    THEN Raise("IndexError")                       \* df.iloc[0] of an empty frame
    ELSE LET selected == Select(DataFrame(arr), SelectedColumns(list_of_bands))
         IN  IF selected.err # "none" THEN selected
             ELSE Select(WithDatetime(NumericBands(dropna(selected.df), list_of_bands)),
                         KeptColumns(list_of_bands))

arr_popped(arr) == IF Len(arr) > 1 THEN SubSeq(arr, 1, Len(arr) - 1) ELSE arr

\* The caller's list after ee_array_to_df(arr, ...): pd.DataFrame(arr) copies
\* the data and every later assignment is to df, so the list is as it was.
arr_after_call(arr) == arr

\* ---------------------------------------------------------------- inputs

LST == "LST_Day_1km"

QC == "QC_Day"

HeaderFull == <<"id", "longitude", "latitude", "time", LST, QC>>

HeaderNoQC == <<"id", "longitude", "latitude", "time", LST>>

Lon == Num(-894012)

Lat == Num(430730)

GoodLST == Num(14645)

\* The time of the data row at position i (1-based): distinct, increasing.
TimeAt(i) == Num(i * MsPerDay + i * 1000 + i)

GoodKind == [lon |-> Lon, lat |-> Lat, time |-> "ok", lst |-> GoodLST, qc |-> Num(0)]

\* Rows with one cell deviating from a good one, and two with a null QC_Day too.
RowKinds ==
    {GoodKind}
    \cup {[GoodKind EXCEPT !.lon = Null], [GoodKind EXCEPT !.lat = Null],
          [GoodKind EXCEPT !.time = "null"], [GoodKind EXCEPT !.qc = Null]}
    \cup {[GoodKind EXCEPT !.lst = c] :
            c \in {Null, Str(<<"N", "a", "N">>), Str(<<>>), Str(<<"7", "5">>)}}
    \cup {[GoodKind EXCEPT !.qc = Null, !.lon = Null],
          [GoodKind EXCEPT !.qc = Null, !.lst = Null]}

\* The rows the provider returns to the script for MODIS LST at one point.
FetchRowKinds ==
    {GoodKind, [GoodKind EXCEPT !.lst = Null], [GoodKind EXCEPT !.qc = Null],
     [GoodKind EXCEPT !.lst = Str(<<"N", "a", "N">>)]}

CellOf(kind, name, i) ==
    CASE name = "id" -> Str(<<"d", "0" >>)
      [] name = "longitude" -> kind.lon
      [] name = "latitude" -> kind.lat
      [] name = "time" -> IF kind.time = "ok" THEN TimeAt(i) ELSE Null
      [] name = LST -> kind.lst
      [] name = QC -> kind.qc

\* The raw response with the given header and one data row per kind.
Response(header, kinds) ==
    <<header>> \o [i \in 1..Len(kinds) |->
                    [j \in 1..Len(header) |-> CellOf(kinds[i], header[j], i)]]

SeqsUpTo(S, n) == UNION {[1..m -> S] : m \in 0..n}

BandLists == {<<LST>>, <<LST, QC>>, <<QC>>}

\* ----------------------------------------------------------------- state

VARIABLES
    pc,             \* the next step of the run
    err,            \* the error that ended the run, "none" while there is none
    ran,            \* the steps started so far, in order
    lst_u_poi,      \* the script's raw response
    lst_df_urban,   \* the script's table
    csv,            \* the contents of lst.csv
    params_u,       \* the fitted parameters
    arr,            \* ee_array_to_df called directly: its raw response
    list_of_bands,  \* ... and its band list
    out1,           \* ... the first call's outcome
    out2            \* ... the second call's outcome, same arguments

vars == <<pc, err, ran, lst_u_poi, lst_df_urban, csv, params_u,
          arr, list_of_bands, out1, out2>>

NoCsv == [header |-> <<>>, lines |-> <<>>]

NotCalled == [err |-> "not called", df |-> NoFrame]

scriptVars == <<err, ran, lst_u_poi, lst_df_urban, csv, params_u>>

callVars == <<arr, list_of_bands, out1, out2>>

\* ------------------------------------------------------------ the script

\* Number of parameters of fit_func after t: lst0, delta_lst, tau, phi.
NParams == 4

Steps == <<"authenticate", "initialize", "fetch", "normalize",
           "convert", "export", "fit", "plot">>

NextStep_fit_before_export(step) ==
    CASE step = "convert" -> "fit"
      [] step = "fit" -> "export"
      [] step = "export" -> "plot"
      [] step = "plot" -> "exit"
      [] OTHER -> Steps[ColPos(Steps, step) + 1]

\* The statement after a step that ended normally; the script ends after plot.
NextStep(step) ==
    IF step = "plot" THEN "exit" ELSE Steps[ColPos(Steps, step) + 1]

\* A step ends normally: control falls through to the next statement.
Proceed == pc' = NextStep(pc) /\ err' = err

\* A step raises: nothing catches it, the interpreter exits with the error.
Abort(e) == pc' = "exit" /\ err' = e

t_modis_to_celsius_273(c) == IF c.k = "num" THEN Num(2 * c.n - 27300) ELSE NaN

\* t_modis_to_celsius on one cell, in hundredths of a degree:
\* 0.02*t_modis - 273.15; NaN stays NaN.
t_modis_to_celsius(c) == IF c.k = "num" THEN Num(2 * c.n - 27315) ELSE NaN

\* lst_df_urban['LST_Day_1km'] = lst_df_urban['LST_Day_1km'].apply(t_modis_to_celsius)
ApplyCelsius(df) ==
    [df EXCEPT !.rows =
        [i \in 1..Len(df.rows) |->
            [df.rows[i] EXCEPT ![ColPos(df.columns, LST)] = t_modis_to_celsius(@)]]]

\* A cell as to_csv writes it: a missing value is an empty field.
CsvField(c) == IF isna(c) THEN Str(<<>>) ELSE c

\* DataFrame.to_csv(path) with its defaults (header=True, index=True): the
\* header line starts with the index's empty label, each line with the row label.
to_csv(df) ==
    [header |-> <<"">> \o df.columns,
     lines  |-> [i \in 1..Len(df.rows) |->
                    <<Num(df.index[i])>> \o
                    [j \in 1..Len(df.columns) |-> CsvField(df.rows[i][j])]]]

Column(df, name) == [i \in 1..Len(df.rows) |-> df.rows[i][ColPos(df.columns, name)]]

curve_fit_any_size(xdata, ydata) ==
    IF \E i \in 1..Len(ydata) : ydata[i].k # "num" THEN {"ValueError"}
    ELSE IF Len(ydata) = 0 THEN {"ValueError"}
    ELSE {"ok", "RuntimeError"}

\* optimize.curve_fit(fit_func, xdata, ydata, p0=[4 values]): how it can end.
\* NaN in the data or no data raise ValueError; fewer points than parameters
\* raise TypeError (least squares needs M >= N); otherwise the optimizer
\* converges ("ok") or gives up (RuntimeError).
curve_fit(xdata, ydata) ==
    IF \E i \in 1..Len(ydata) : ydata[i].k # "num" THEN {"ValueError"}
    ELSE IF Len(ydata) = 0 THEN {"ValueError"}
    ELSE IF Len(ydata) < NParams THEN {"TypeError"}
    ELSE {"ok", "RuntimeError"}

Init ==
    /\ pc = "authenticate"
    /\ err = "none" /\ ran = <<>>
    /\ lst_u_poi = <<>> /\ lst_df_urban = NoFrame
    /\ csv = NoCsv /\ params_u = "unset"
    /\ arr = <<>> /\ list_of_bands = <<LST>>
    /\ out1 = NotCalled /\ out2 = NotCalled

\* ee.Authenticate()
Authenticate ==
    /\ pc = "authenticate"
    /\ ran' = Append(ran, pc)
    /\ (Proceed \/ Abort("ProviderError"))
    /\ UNCHANGED <<lst_u_poi, lst_df_urban, csv, params_u, callVars>>

\* ee.Initialize()
Initialize ==
    /\ pc = "initialize"
    /\ ran' = Append(ran, pc)
    /\ (Proceed \/ Abort("ProviderError"))
    /\ UNCHANGED <<lst_u_poi, lst_df_urban, csv, params_u, callVars>>

\* The collection, the point, the mean value and getRegion(...).getInfo().
Fetch ==
    /\ pc = "fetch"
    /\ ran' = Append(ran, pc)
    /\ \/ /\ \E kinds \in SeqsUpTo(FetchRowKinds, MaxFetchRows) :
                lst_u_poi' = Response(HeaderFull, kinds)
          /\ Proceed
       \/ /\ Abort("ProviderError")
          /\ UNCHANGED lst_u_poi
    /\ UNCHANGED <<lst_df_urban, csv, params_u, callVars>>

\* lst_df_urban = ee_array_to_df(lst_u_poi, ['LST_Day_1km'])
Normalize ==
    /\ pc = "normalize"
    /\ ran' = Append(ran, pc)
    /\ LET r == ee_array_to_df(lst_u_poi, <<LST>>)
       IN  IF r.err = "none"
           THEN lst_df_urban' = r.df /\ Proceed
           ELSE UNCHANGED lst_df_urban /\ Abort(r.err)
    /\ lst_u_poi' = arr_after_call(lst_u_poi)
    /\ UNCHANGED <<csv, params_u, callVars>>

\* The conversion of the LST column to degrees Celsius.
Convert ==
    /\ pc = "convert"
    /\ ran' = Append(ran, pc)
    /\ lst_df_urban' = ApplyCelsius(lst_df_urban)
    /\ Proceed
    /\ UNCHANGED <<lst_u_poi, csv, params_u, callVars>>

\* from google.colab import files; to_csv('lst.csv'); files.download("lst.csv")
Export ==
    /\ pc = "export"
    /\ ran' = Append(ran, pc)
    /\ \/ /\ Abort("ImportError")
          /\ UNCHANGED csv
       \/ /\ csv' = to_csv(lst_df_urban)
          /\ (Proceed \/ Abort("DownloadError"))
    /\ UNCHANGED <<lst_u_poi, lst_df_urban, params_u, callVars>>

\* x_data_u, y_data_u and optimize.curve_fit(fit_func, x_data_u, y_data_u, p0=...)
Fit ==
    /\ pc = "fit"
    /\ ran' = Append(ran, pc)
    /\ \E outcome \in curve_fit(Column(lst_df_urban, "time"), Column(lst_df_urban, LST)) :
          IF outcome = "ok"
          THEN params_u' = "fitted" /\ Proceed
          ELSE UNCHANGED params_u /\ Abort(outcome)
    /\ UNCHANGED <<lst_u_poi, lst_df_urban, csv, callVars>>

\* The figure: scatter, fitted curve, labels, plt.show()
Plot ==
    /\ pc = "plot"
    /\ ran' = Append(ran, pc)
    /\ (Proceed \/ Abort("RenderError"))
    /\ UNCHANGED <<lst_u_poi, lst_df_urban, csv, params_u, callVars>>

Next ==
    \/ Authenticate \/ Initialize \/ Fetch \/ Normalize
    \/ Convert \/ Export \/ Fit \/ Plot

Spec == Init /\ [][Next]_vars

\* ----------------------------------------------- claims about the script

Ran(step) == step \in Range(ran)

IsPrefix(s, full) == Len(s) <= Len(full) /\ \A i \in 1..Len(s) : s[i] = full[i]

\* C5: after the conversion step every LST_Day_1km value is 0.02*raw - 273.15
\* of its row's raw value (2*raw - 27315 in hundredths), applied once, and the
\* time and datetime columns are what normalization gave.
C5_CelsiusOncePerValue ==
    Ran("convert") =>
        \A i \in 1..Len(lst_df_urban.rows) :
            LET j   == lst_df_urban.index[i]
                raw == to_numeric(RawCell(lst_u_poi, j, LST))
                now == lst_df_urban.rows[i][ColPos(lst_df_urban.columns, LST)]
            IN  /\ raw.k = "num" => now = Num(2 * raw.n - 27315)
                /\ raw.k # "num" => now.k = "nan"
                /\ lst_df_urban.rows[i][ColPos(lst_df_urban.columns, "time")]
                      = RawCell(lst_u_poi, j, "time")
                /\ lst_df_urban.rows[i][ColPos(lst_df_urban.columns, "datetime")]
                      = to_datetime(RawCell(lst_u_poi, j, "time"))

C5_Witness ==
    /\ Ran("convert") /\ Len(lst_df_urban.rows) > 1
    /\ \E i \in 1..Len(lst_df_urban.rows) :
          /\ RawCell(lst_u_poi, lst_df_urban.index[i], LST) = Num(14645)
          /\ lst_df_urban.rows[i][ColPos(lst_df_urban.columns, LST)] = Num(1975)

\* C6: with fewer than 4 samples in the table the fit step ends in an error,
\* leaves no fitted parameters, and the plot step is never run.
C6_FewSamplesFitFails ==
    (Ran("fit") /\ Len(lst_df_urban.rows) < 4) =>
        /\ err \in {"ValueError", "TypeError"}
        /\ params_u = "unset"
        /\ pc = "exit"
        /\ ~Ran("plot")

C6_Witness ==
    /\ Ran("fit") /\ Len(lst_df_urban.rows) = 3
    /\ \A i \in 1..3 : lst_df_urban.rows[i][ColPos(lst_df_urban.columns, LST)].k = "num"
    /\ err = "TypeError"

\* C7 as stated: the exported file has exactly the columns time, datetime and
\* the requested band, in that order, and no other.
C7_CsvColumnsExact ==
    (csv # NoCsv) => csv.header = <<"time", "datetime", LST>>

\* C7 as amended: the table handed to the export has exactly the columns time,
\* datetime and the requested band (no longitude, no latitude, nothing added
\* since normalization), and the file written holds them in that order after a
\* first, unnamed column that holds each row's label.
C7_CsvIndexThenColumns ==
    /\ (Ran("normalize") /\ err = "none") =>
          lst_df_urban.columns = <<"time", "datetime", LST>>
    /\ (csv # NoCsv) =>
          /\ csv.header = <<"", "time", "datetime", LST>>
          /\ Len(csv.lines) = Len(lst_df_urban.rows)
          /\ \A i \in 1..Len(csv.lines) :
                /\ Len(csv.lines[i]) = 4
                /\ csv.lines[i][1] = Num(lst_df_urban.index[i])

C7_Witness ==
    /\ csv # NoCsv /\ Len(csv.lines) = 2
    /\ csv.lines[2][1] = Num(2)

\* C8: the steps run in the script's order, each at most once; once a step has
\* ended in an error the run is over: no later step, no retry.
C8_LinearRun ==
    /\ [](IsPrefix(ran, Steps))
    /\ [](err # "none" => pc = "exit")
    /\ [](pc \in Range(Steps) => (err = "none" /\ ran = SubSeq(Steps, 1, ColPos(Steps, pc) - 1)))
    /\ [][err # "none" => ran' = ran]_vars

C8_Witness ==
    /\ err = "RuntimeError" /\ pc = "exit"
    /\ ran = SubSeq(Steps, 1, 7)

\* ------------------------------------- ee_array_to_df called on its own

\* Every raw response and band list the call is tried on.
InitFn ==
    /\ pc = "call1"
    /\ err = "none" /\ ran = <<>> /\ lst_u_poi = <<>> /\ lst_df_urban = NoFrame
    /\ csv = NoCsv /\ params_u = "unset"
    /\ list_of_bands \in BandLists
    /\ arr \in {<<>>} \cup {Response(h, kinds) :
                              h \in {HeaderFull, HeaderNoQC}, kinds \in SeqsUpTo(RowKinds, MaxRows)}
    /\ out1 = NotCalled /\ out2 = NotCalled

Call1 ==
    /\ pc = "call1"
    /\ out1' = ee_array_to_df(arr, list_of_bands)
    /\ arr' = arr_after_call(arr)
    /\ pc' = "call2"
    /\ UNCHANGED <<list_of_bands, out2, scriptVars>>

Call2 ==
    /\ pc = "call2"
    /\ out2' = ee_array_to_df(arr, list_of_bands)
    /\ arr' = arr_after_call(arr)
    /\ pc' = "called"
    /\ UNCHANGED <<list_of_bands, out1, scriptVars>>

NextFn == Call1 \/ Call2

SpecFn == InitFn /\ [][NextFn]_vars

\* ------------------------------------------- claims about ee_array_to_df

Called1 == out1.err # "not called"

OutCell(out, i, name) == out.df.rows[i][ColPos(out.df.columns, name)]

\* The header row names longitude, latitude, time and every requested band.
ValidHeader == arr # <<>> /\ \A name \in Range(SelectedColumns(list_of_bands)) : name \in Range(arr[1])

\* C1: every row of a returned table holds a number for each requested band,
\* and a data row whose requested band is null or a non-numeric string is not
\* in the table.
C1_EveryBandFinite ==
    (Called1 /\ out1.err = "none") =>
        /\ \A i \in 1..Len(out1.df.rows) : \A b \in Range(list_of_bands) :
              OutCell(out1, i, b).k = "num"
        /\ \A j \in 0..(Len(arr) - 2) :
              (\E b \in Range(list_of_bands) : to_numeric(RawCell(arr, j, b)).k # "num")
                  => j \notin Range(out1.df.index)

\* C2: a requested band that the header row does not name ends the call in an
\* error, with no table returned, whatever the data rows are.
C2_MissingBandRaises ==
    (Called1 /\ arr # <<>> /\ \E b \in Range(list_of_bands) : b \notin Range(arr[1])) =>
        /\ out1.err = "KeyError"
        /\ out1.df = NoFrame

C2_Witness ==
    /\ pc = "called" /\ Len(arr) > 2
    /\ \E b \in Range(list_of_bands) : b \notin Range(arr[1])
    /\ \E b \in Range(list_of_bands) : b \in Range(arr[1])
    /\ out1.err = "KeyError"

\* C3: a raw response of fewer than 2 elements (empty, or a valid header row
\* alone) gives an empty table and no error.
C3_ShortResponseEmpty ==
    (Called1 /\ Len(arr) < 2 /\ (Len(arr) = 1 => ValidHeader)) =>
        /\ out1.err = "none"
        /\ out1.df.rows = <<>>

\* C4: the returned table is a subsequence of the data rows: no longer than
\* them, in their order, each row with the time of the data row it came from.
C4_Subsequence ==
    (Called1 /\ out1.err = "none") =>
        LET N   == Len(arr) - 1
            idx == out1.df.index
        IN  /\ Len(out1.df.rows) <= N
            /\ Len(idx) = Len(out1.df.rows)
            /\ \A i \in 1..Len(idx) : idx[i] \in 0..(N - 1)
            /\ \A i, j \in 1..Len(idx) : i < j => idx[i] < idx[j]
            /\ \A i \in 1..Len(idx) : OutCell(out1, i, "time") = RawCell(arr, idx[i], "time")

C4_Witness ==
    /\ pc = "called" /\ out1.err = "none"
    /\ Len(arr) = 4 /\ out1.df.index = <<0, 2>>

C10_DroppedIffNullInSelected ==
    (Called1 /\ out1.err = "none") =>
        \A j \in 0..(Len(arr) - 2) :
            (j \notin Range(out1.df.index))
                <=> \E name \in {"longitude", "latitude", "time"} \cup Range(list_of_bands) :
                        RawCell(arr, j, name).k = "null"

C10_Witness ==
    /\ pc = "called" /\ out1.err = "none" /\ list_of_bands = <<LST>>
    /\ QC \in Range(arr[1])
    /\ \E j \in 0..(Len(arr) - 2) :
          RawCell(arr, j, QC).k = "null" /\ j \in Range(out1.df.index)
    /\ \E j \in 0..(Len(arr) - 2) :
          /\ RawCell(arr, j, "longitude").k = "null"
          /\ RawCell(arr, j, LST).k = "num"
          /\ j \notin Range(out1.df.index)

====
